---- MODULE Spec2Model ----
(***************************************************************************)
(* Model of the session view of the Jules client                           *)
(* (src/src/pages/SessionView.tsx): the cursor ledger `tokens`, the        *)
(* traversal position (topIndex, bottomIndex), the activity window and     *)
(* the three asynchronous operations loadData (initial positioning),       *)
(* catchUp (forward) and loadMore (backward).  One action is one           *)
(* synchronous stretch of a handler, from one await to the next.           *)
(*                                                                         *)
(* Cursors are numbers: 0 is the empty start cursor "", the cursor k > 0   *)
(* is the nextPageToken the server returns with page k-1.  Activities are  *)
(* numbered 1..srvLen in creation order; the number stands for both the    *)
(* activity's name and its createTime.                                     *)
(***************************************************************************)
EXTENDS Integers, Sequences, FiniteSets, TLC

\* ---------------------------------------------------------------- bounds
MaxActs == 5        \* activities the server ever holds
PageSize == 2       \* the pageSize setting of this run
MaxBottom == 4      \* catchUp is not started once bottomIndex is this large

\* ------------------------------------------------------------- constants
Undefined == -1     \* JavaScript undefined (array read out of range, absent field)

VARIABLES
  srvLen,           \* server: number of activities of the session
  lsSession,        \* localStorage jules_session_<name>
  lsTokens,         \* localStorage jules_tokens_<name>
  tokens,           \* useState tokens (the in-memory cursor ledger)
  topIndex,         \* useState topIndex
  bottomIndex,      \* useState bottomIndex
  activities,       \* useState activities (the activity window)
  loading,          \* useState loading
  isCatchingUp,     \* useState isCatchingUp
  loadingMore,      \* useState loadingMore
  hasMoreHistory,   \* useState hasMoreHistory
  error,            \* useState error ("" stands for null)
  sending,          \* useState sending
  loadingMoreRef,   \* useRef loadingMoreRef
  catchingUpRef,    \* useRef catchingUpRef
  ld,               \* the running loadData call: its position and locals
  catchUps,         \* the catchUp loops in flight, each with its locals
  loadMores,        \* the loadMore calls in flight, each with its locals
  pend,             \* handlers suspended before their catchUp() call
  workerQueue,      \* pages posted to the worker and not yet answered
  listeners,        \* "message" listeners on the worker, in registration order
  resumeQ,          \* calls resolved by the last worker message, still to resume
  ev,               \* the operation the last step entered
  idem,             \* outcome of the last completed catchUp run, for idempotence
  name,             \* useParams name: the session the view shows
  session,          \* useState session: the state of the session last fetched
  srvState,         \* server: the state it reports for the session
  otherLen,         \* server: number of activities of the session shown before
  pollFx,           \* polling effect: intervals armed, its two refs, its cleanup
  settings,         \* SettingsProvider: pageSize in memory and as stored
  page              \* worker: the page posted to it and the page it posts back

vars == <<srvLen, lsSession, lsTokens, tokens, topIndex, bottomIndex,
          activities, loading, isCatchingUp, loadingMore, hasMoreHistory,
          error, sending, loadingMoreRef, catchingUpRef, ld, catchUps,
          loadMores, pend, workerQueue, listeners, resumeQ, ev, idem,
          name, session, srvState, otherLen, pollFx, settings, page>>

\* what the session view's handlers never touch
aside == <<pollFx, settings, page>>

\* ----------------------------------------------------------- sequences
Min(a, b) == IF a < b THEN a ELSE b

Includes(s, x) == \E i \in DOMAIN s : s[i] = x

\* s.filter(keep)
RECURSIVE Filter(_, _)
Filter(s, drop) ==
  IF s = <<>> THEN <<>>
  ELSE IF Head(s) \in drop THEN Filter(Tail(s), drop)
       ELSE <<Head(s)>> \o Filter(Tail(s), drop)

RemoveAt(s, i) == SubSeq(s, 1, i - 1) \o SubSeq(s, i + 1, Len(s))

\* arr[i] with a 0-based index: undefined when out of range
At(arr, i) == IF i + 1 \in DOMAIN arr THEN arr[i + 1] ELSE Undefined

\* arr.push(x) without the includes test
PushAlways(arr, x) == Append(arr, x)

\* arr.push(x) unless arr.includes(x)
PushIfNew(arr, x) == IF Includes(arr, x) THEN arr ELSE Append(arr, x)

\* ---------------------------------------------------------------- server
\* The page the server returns for cursor c when it holds n activities.
PageActs(c, n) ==
  [i \in 1..(Min((c + 1) * PageSize, n) - Min(c * PageSize, n)) |-> c * PageSize + i]

\* nextPageToken is present iff a newer page exists at fetch time.
PageNext(c, n) == IF n > (c + 1) * PageSize THEN c + 1 ELSE Undefined

\* listActivities(apiKey, sessionName, pageSize, pageToken): a falsy
\* pageToken ("" or undefined) is not sent, the server starts at the beginning.
listActivities(pageToken, n) ==
  LET c == IF pageToken = Undefined \/ pageToken = 0 THEN 0 ELSE pageToken
  IN  [activities |-> PageActs(c, n), nextPageToken |-> PageNext(c, n)]

\* ----------------------------------------------------------------- cache
\* lastActivity?.createTime of a list of activities
LastCreateTime(acts) == IF acts = <<>> THEN Undefined ELSE acts[Len(acts)]

\* a stored array entry, or a stored lastActivityTime, that is not a string
NotString == -2

\* What localStorage holds under a key.  present: getItem(...) is not null;
\* parses: JSON.parse accepts the text; isArray: the parsed value is an object
\* whose tokens field is an array (FALSE: the field is a number); tokens /
\* value: the entries of the array; lastActivityTime = Undefined: the text
\* has no such property (JSON.stringify leaves an undefined property out).
NoSession == [present |-> FALSE, parses |-> TRUE, isArray |-> TRUE,
              tokens |-> <<>>, lastActivityTime |-> Undefined]
NoTokens == [present |-> FALSE, parses |-> TRUE, value |-> <<>>]

\* saveCache(updatedTokens, lastActivityTime): both keys are written
SavedSession(updatedTokens, lastActivityTime) ==
  [present |-> TRUE, parses |-> TRUE, isArray |-> TRUE,
   tokens |-> updatedTokens, lastActivityTime |-> lastActivityTime]
SavedTokens(updatedTokens) ==
  [present |-> TRUE, parses |-> TRUE, value |-> updatedTokens]

\* arr.every(t => typeof t === "string")
EveryString(arr) == \A i \in DOMAIN arr : arr[i] # NotString

\* the validation of the session record with the threshold of the legacy one
SessionValidMoreThanOne ==
  /\ lsSession.isArray
  /\ Len(lsSession.tokens) > 1
  /\ EveryString(lsSession.tokens)

\* loadCache: the validation of the parsed session record
SessionValid ==
  /\ lsSession.isArray
  /\ Len(lsSession.tokens) > 0
  /\ EveryString(lsSession.tokens)

\* loadCache: the validation of the parsed legacy array
LegacyValid ==
  /\ Len(lsTokens.value) > 1
  /\ EveryString(lsTokens.value)

\* loadCache: a JSON.parse inside the try block throws.  The legacy key is
\* read only when the session record is absent or invalid.
loadCacheThrows ==
  \/ lsSession.present /\ ~lsSession.parses
  \/ /\ ~(lsSession.present /\ SessionValid)
     /\ lsTokens.present /\ ~lsTokens.parses

\* loadCache(): the value returned (hit = FALSE stands for null): the session
\* record if present and valid, else the legacy array if valid, else null
loadCache ==
  IF loadCacheThrows
  THEN [hit |-> FALSE, tokens |-> <<>>, lastActivityTime |-> Undefined]
  ELSE IF lsSession.present /\ SessionValid
  THEN [hit |-> TRUE, tokens |-> lsSession.tokens,
        lastActivityTime |->
          IF lsSession.lastActivityTime \notin {Undefined, NotString}
          THEN lsSession.lastActivityTime ELSE Undefined]
  ELSE IF lsTokens.present /\ LegacyValid
  THEN [hit |-> TRUE, tokens |-> lsTokens.value, lastActivityTime |-> Undefined]
  ELSE [hit |-> FALSE, tokens |-> <<>>, lastActivityTime |-> Undefined]

\* loadCache(): what the catch block leaves under the two keys
ClearedIfThrown(item, none) == IF loadCacheThrows THEN none ELSE item

\* useState initialiser of tokens: JSON.parse(saved) is not guarded
InitialTokensThrows == lsTokens.present /\ ~lsTokens.parses
InitialTokens == IF lsTokens.present THEN lsTokens.value ELSE <<0>>

\* ------------------------------------------------------------- worker
\* truncateActivities(acts, truncateDiffs): acts.map(...) rewrites artifact
\* payloads; the activities, their names and their order are kept
truncateActivities(acts) == [i \in DOMAIN acts |-> acts[i]]

\* a promise continuation runs before any other task: while calls resolved
\* by a worker message are still to resume, nothing else runs
Quiet == resumeQ = <<>>

\* the worker answers its oldest message (self.onmessage, self.postMessage).
\* Every listener registered by processActivities receives this message,
\* removes itself and resolves its promise with e.data.
WorkerReply ==
  /\ Quiet
  /\ workerQueue # <<>>
  /\ LET data == truncateActivities(Head(workerQueue))
         Resolve(c) == IF c.phase = "process"
                       THEN [c EXCEPT !.phase = "resolved", !.newActs = data]
                       ELSE c
     IN /\ ld' = IF ld.pc = "process"
                 THEN [ld EXCEPT !.pc = "resolved", !.newActs = data]
                 ELSE ld
        /\ catchUps' = [i \in DOMAIN catchUps |-> Resolve(catchUps[i])]
        /\ loadMores' = [i \in DOMAIN loadMores |-> Resolve(loadMores[i])]
  /\ workerQueue' = Tail(workerQueue)
  /\ resumeQ' = listeners
  /\ listeners' = <<>>
  /\ ev' = "worker"
  /\ UNCHANGED <<srvLen, lsSession, lsTokens, tokens, topIndex, bottomIndex,
                 activities, loading, isCatchingUp, loadingMore, hasMoreHistory,
                 error, sending, loadingMoreRef, catchingUpRef, pend, idem>>
  /\ UNCHANGED <<name, session, srvState, otherLen>>
  /\ UNCHANGED aside

\* ------------------------------------------------------------ loadData
\* pc, hit, currentToken .. newActs: the position and the locals of loadData;
\* srv0: what the server held when positioning started; srvAt: what it held
\* at the fetch being processed; fetched: the cursors fetched so far, in order
LdStart == [pc |-> "getSession", hit |-> FALSE, currentToken |-> 0,
            currentIndex |-> 0, updatedTokens |-> <<>>, acts |-> <<>>,
            isFirstBatch |-> TRUE, next |-> Undefined, newActs |-> <<>>,
            srv0 |-> 0, srvAt |-> 0, fetched |-> <<>>]

\* what the server holds for session `sess`: the session shown, or the one
\* the view showed before the route changed
SrvOf(sess) == IF sess = name THEN srvLen ELSE otherLen

\* activity names carry the session's name as their prefix
\* (sessions/<id>/activities/<k>): k for session 1, OtherBase + k for session 2
OtherBase == 100

ActivityOf(sess, k) == IF sess = 1 THEN k ELSE OtherBase + k

\* listActivities(apiKey, name, PAGE_SIZE, pageToken) as the closure of a
\* render that saw session `sess` calls it
listActivitiesOf(sess, pageToken) ==
  LET r == listActivities(pageToken, SrvOf(sess))
  IN [activities |-> [i \in DOMAIN r.activities |->
                        ActivityOf(sess, r.activities[i])],
      nextPageToken |-> r.nextPageToken]

\* a view whose first render threw: it shows nothing and runs no effect
LdCrashed == [LdStart EXCEPT !.pc = "crashed"]

\* idem.valid: a catchUp run completed and the view has not changed since;
\* win, toks, top, bot: the view after that run; srv: what the server held at
\* the last fetch of that run; ok: the run repeated the previous outcome
NoIdem == [valid |-> FALSE, ok |-> TRUE, win |-> <<>>, toks |-> <<>>,
           top |-> 0, bot |-> 0, srv |-> 0]

\* setInterval ids are positive; a ref holding null is 0
NoInterval == 0

\* the polling effect after its first run (loading is true: nothing armed,
\* no cleanup returned)
PollFxAtMount ==
  [armed |-> {}, pollingIntervalRef |-> NoInterval,
   progressIntervalRef |-> NoInterval, cleanup |-> FALSE, mounted |-> TRUE,
   nextId |-> 1, firstId |-> 1]

\* SettingsProvider with nothing stored under jules_page_size
DefaultPageSize == 100

NothingStored == <<>>

SettingsAtStart ==
  [pageSize |-> DefaultPageSize, stored |-> NothingStored, size |-> DefaultPageSize]

\* no page has been posted to the worker
PageAtStart ==
  [activities |-> <<>>, truncateDiffs |-> TRUE, processed |-> <<>>,
   posted |-> FALSE]

AsideAtStart ==
  /\ pollFx = PollFxAtMount
  /\ settings = SettingsAtStart
  /\ page = PageAtStart

\* the component right after its first render, for what localStorage holds
ViewAtMount ==
  /\ tokens = IF InitialTokensThrows THEN <<>> ELSE InitialTokens
  /\ topIndex = 0
  /\ bottomIndex = 0
  /\ activities = <<>>
  /\ loading = TRUE
  /\ isCatchingUp = FALSE
  /\ loadingMore = FALSE
  /\ hasMoreHistory = FALSE
  /\ error = ""
  /\ sending = FALSE
  /\ loadingMoreRef = FALSE
  /\ catchingUpRef = FALSE
  /\ ld = IF InitialTokensThrows THEN LdCrashed ELSE LdStart
  /\ catchUps = <<>>
  /\ loadMores = <<>>
  /\ pend = {}
  /\ workerQueue = <<>>
  /\ listeners = <<>>
  /\ resumeQ = <<>>
  /\ ev = "mount"
  /\ idem = NoIdem
  /\ session = "none"

\* a session opened for the first time in this browser
Init ==
  /\ srvLen \in 0..MaxActs
  /\ lsSession = NoSession
  /\ lsTokens = NoTokens
  /\ ViewAtMount
  /\ name = 1
  /\ srvState = "IN_PROGRESS"
  /\ otherLen = 0
  /\ AsideAtStart

\* loadData, fresh visit: a ledger without its start cursor
FreshTokensEmpty == <<>>

\* loadData, fresh visit: const updatedTokens = [""]
FreshTokens == <<0>>

\* loadData, returning visit, started at the first cached cursor
StartIndexZero(cachedTokens) == 0

\* loadData, returning visit: const startIndex = cachedTokens.length - 1
StartIndex(cachedTokens) == Len(cachedTokens) - 1

\* getSession answered: consult the cache and choose the path
\* (returning visit: start at the last cached cursor; fresh visit: start at "").
LoadDataPosition ==
  /\ Quiet
  /\ ld.pc = "getSession"
  /\ LET cache == loadCache
         hasValidCache == cache.hit /\ Len(cache.tokens) > 1
         startIndex == StartIndex(cache.tokens)
     IN IF hasValidCache
        THEN /\ topIndex' = startIndex
             /\ bottomIndex' = startIndex
             /\ hasMoreHistory' = (startIndex > 0)
             /\ tokens' = cache.tokens
             /\ ld' = [LdStart EXCEPT !.pc = "fetch", !.hit = TRUE,
                         !.currentToken = At(cache.tokens, startIndex),
                         !.updatedTokens = cache.tokens,
                         !.srv0 = srvLen]
        ELSE /\ topIndex' = 0
             /\ bottomIndex' = 0
             /\ hasMoreHistory' = FALSE
             /\ tokens' = tokens
             /\ ld' = [LdStart EXCEPT !.pc = "fetch",
                         !.updatedTokens = FreshTokens,
                         !.srv0 = srvLen]
  /\ lsSession' = ClearedIfThrown(lsSession, NoSession)
  /\ lsTokens' = ClearedIfThrown(lsTokens, NoTokens)
  /\ isCatchingUp' = TRUE
  /\ ev' = "loadData"
  /\ idem' = NoIdem
  /\ UNCHANGED <<srvLen, activities, loading, loadingMore,
                 error, sending, loadingMoreRef, catchingUpRef, catchUps,
                 loadMores, pend, workerQueue, listeners, resumeQ>>
  /\ session' = srvState
  /\ UNCHANGED <<name, srvState, otherLen>>
  /\ UNCHANGED aside

\* listActivities of the positioning loop answered: the page goes to the worker
LoadDataFetched ==
  /\ Quiet
  /\ ld.pc = "fetch"
  /\ LET result == listActivitiesOf(name, ld.currentToken)
     IN /\ ld' = [ld EXCEPT !.pc = "process", !.next = result.nextPageToken,
                             !.srvAt = srvLen,
                             !.fetched = Append(@, IF ld.currentToken = Undefined
                                                   THEN 0 ELSE ld.currentToken)]
        /\ workerQueue' = Append(workerQueue, result.activities)
  /\ listeners' = Append(listeners, "ld")
  /\ ev' = "loadData"
  /\ UNCHANGED <<srvLen, lsSession, lsTokens, tokens, topIndex, bottomIndex,
                 activities, loading, isCatchingUp, loadingMore, hasMoreHistory,
                 error, sending, loadingMoreRef, catchingUpRef, catchUps,
                 loadMores, pend, resumeQ, idem>>
  /\ UNCHANGED <<name, session, srvState, otherLen>>
  /\ UNCHANGED aside

\* a loop that asks for the first page again after every page
FollowFromStart(nextPageToken) == 0

\* loadData and catchUp: currentToken = result.nextPageToken
FollowCursor(nextPageToken) == nextPageToken

\* loadData without its finally block
FinallySkipped(flag) == flag

\* loadData, finally: setLoading(false); setIsCatchingUp(false)
FinallyReset(flag) == FALSE

\* loadData keeping the spinner until its finally block
ReleaseLoadingLate(isFirstBatch, cur) == cur

\* loadData: if (isFirstBatch) { setLoading(false); isFirstBatch = false; }
ReleaseLoading(isFirstBatch, cur) == IF isFirstBatch THEN FALSE ELSE cur

\* processActivities of the positioning loop resolved: the window is set to
\* the pages of this loop, the cursor is recorded, the loop goes on or ends
LoadDataApply ==
  /\ resumeQ # <<>> /\ Head(resumeQ) = "ld"
  /\ ld.pc = "resolved"
  /\ resumeQ' = Tail(resumeQ)
  /\ LET acts == ld.acts \o ld.newActs
         next == ld.next
         updatedTokens == PushIfNew(ld.updatedTokens, next)
     IN /\ activities' = acts
        /\ IF next # Undefined
           THEN /\ ld' = [ld EXCEPT !.pc = "fetch", !.acts = acts,
                                    !.isFirstBatch = FALSE,
                                    !.updatedTokens = updatedTokens,
                                    !.currentToken = FollowCursor(next),
                                    !.currentIndex = IF ld.hit THEN 0 ELSE @ + 1,
                                    !.next = Undefined, !.newActs = <<>>,
                                    !.srvAt = 0]
                /\ bottomIndex' = IF ld.hit THEN Len(updatedTokens) - 1
                                  ELSE ld.currentIndex + 1
                /\ loading' = ReleaseLoading(ld.isFirstBatch, loading)
                /\ ev' = "loadData"
                /\ UNCHANGED <<tokens, lsSession, lsTokens, isCatchingUp>>
           ELSE /\ tokens' = ld.updatedTokens
                /\ lsSession' = SavedSession(ld.updatedTokens, LastCreateTime(acts))
                /\ lsTokens' = SavedTokens(ld.updatedTokens)
                /\ isCatchingUp' = FinallyReset(isCatchingUp)
                /\ loading' = FinallyReset(loading)
                /\ ld' = [LdStart EXCEPT !.pc = "done"]
                /\ ev' = "loadDataDone"
                /\ UNCHANGED bottomIndex
  /\ idem' = NoIdem
  /\ UNCHANGED <<srvLen, topIndex, loadingMore, hasMoreHistory, error, sending,
                 loadingMoreRef, catchingUpRef, catchUps, loadMores, pend,
                 workerQueue, listeners>>
  /\ UNCHANGED <<name, session, srvState, otherLen>>
  /\ UNCHANGED aside

\* getSession or a listActivities call of loadData rejected: catch and finally
LoadDataFail ==
  /\ Quiet
  /\ ld.pc \in {"getSession", "fetch"}
  /\ error' = "Failed to load session data."
  /\ loading' = FinallyReset(loading)
  /\ isCatchingUp' = FinallyReset(isCatchingUp)
  /\ ld' = [ld EXCEPT !.pc = "failed", !.srv0 = 0, !.srvAt = 0,
                       !.fetched = <<>>]
  /\ ev' = "loadDataFail"
  /\ idem' = NoIdem
  /\ UNCHANGED <<srvLen, lsSession, lsTokens, tokens, topIndex, bottomIndex,
                 activities, loadingMore, hasMoreHistory, sending,
                 loadingMoreRef, catchingUpRef, catchUps, loadMores, pend,
                 workerQueue, listeners, resumeQ>>
  /\ UNCHANGED <<name, session, srvState, otherLen>>
  /\ UNCHANGED aside

\* ------------------------------------------------------------- catchUp
\* catchUp without its single-flight guard
CatchUpGuardOff == FALSE

\* the single-flight guard of catchUp (apiKey is set in an open view)
CatchUpGuard == catchingUpRef

\* setActivities(prev => [...prev, ...uniqueNewActs]): names already in the
\* window are filtered out of the new page
AppendUnique(prev, newActs) ==
  prev \o Filter(newActs, {prev[i] : i \in DOMAIN prev})

\* catchUp() as created by the render that saw (toks, bot, name), called by
\* `caller`: everything up to the first await.  A handler that awaits the
\* call (handleSend) resumes at once when the guard returns.
CatchUpCall(toks, bot, sess, caller) ==
  IF CatchUpGuard
  THEN /\ ev' = "catchUpSkip"
       /\ sending' = IF caller = "send" THEN FALSE ELSE sending
       /\ UNCHANGED <<catchingUpRef, isCatchingUp, catchUps>>
  ELSE /\ ev' = "catchUpStart"
       /\ catchingUpRef' = TRUE
       /\ isCatchingUp' = TRUE
       /\ catchUps' = Append(catchUps,
                        [phase |-> "fetch", currentToken |-> At(toks, bot),
                         currentIndex |-> bot, updatedTokens |-> toks,
                         caller |-> caller, next |-> Undefined,
                         newActs |-> <<>>, srvAt |-> 0, same |-> idem.valid,
                         sess |-> sess, fetched |-> <<>>])
       /\ UNCHANGED sending

Snapshot(win, toks, top, bot, srv) ==
  [valid |-> TRUE, ok |-> TRUE, win |-> win, toks |-> toks, top |-> top,
   bot |-> bot, srv |-> srv]

\* listActivities of a catchUp loop answered: the page goes to the worker
CatchUpFetched(i) ==
  /\ Quiet
  /\ catchUps[i].phase = "fetch"
  /\ LET c == catchUps[i]
         result == listActivitiesOf(c.sess, c.currentToken)
     IN /\ catchUps' = [catchUps EXCEPT ![i].phase = "process",
                                        ![i].next = result.nextPageToken,
                                        ![i].srvAt = SrvOf(c.sess),
                                        ![i].same = @ /\ srvLen = idem.srv,
                                        ![i].fetched =
                                          Append(@, IF c.currentToken = Undefined
                                                    THEN 0 ELSE c.currentToken)]
        /\ workerQueue' = Append(workerQueue, result.activities)
  /\ listeners' = Append(listeners, "cu")
  /\ ev' = "catchUpFetched"
  /\ UNCHANGED <<srvLen, lsSession, lsTokens, tokens, topIndex, bottomIndex,
                 activities, loading, isCatchingUp, loadingMore, hasMoreHistory,
                 error, sending, loadingMoreRef, catchingUpRef, ld, loadMores,
                 pend, resumeQ, idem>>
  /\ UNCHANGED <<name, session, srvState, otherLen>>
  /\ UNCHANGED aside

\* processActivities of a catchUp loop resolved: append the new names, record
\* the cursor, go on or end
CatchUpApply(i) ==
  /\ resumeQ # <<>> /\ Head(resumeQ) = "cu"
  /\ catchUps[i].phase = "resolved"
  /\ resumeQ' = Tail(resumeQ)
  /\ LET c == catchUps[i]
         next == c.next
         isNew == ~Includes(c.updatedTokens, next)
         updatedTokens == PushIfNew(c.updatedTokens, next)
         win == AppendUnique(activities, c.newActs)
     IN /\ activities' = win
        /\ IF next # Undefined
           THEN /\ tokens' = IF isNew THEN updatedTokens ELSE tokens
                /\ lsTokens' = IF isNew /\ c.sess = name
                                THEN SavedTokens(updatedTokens) ELSE lsTokens
                /\ bottomIndex' = c.currentIndex + 1
                /\ catchUps' = [catchUps EXCEPT ![i] =
                                  [c EXCEPT !.phase = "fetch",
                                            !.updatedTokens = updatedTokens,
                                            !.currentToken = FollowCursor(next),
                                            !.currentIndex = @ + 1,
                                            !.next = Undefined,
                                            !.newActs = <<>>]]
                /\ ev' = "catchUpPage"
                /\ UNCHANGED <<isCatchingUp, catchingUpRef, sending, idem>>
           ELSE /\ isCatchingUp' = FALSE
                /\ catchingUpRef' = FALSE
                /\ catchUps' = RemoveAt(catchUps, i)
                /\ sending' = IF c.caller = "send" THEN FALSE ELSE sending
                /\ ev' = "catchUpDone"
                /\ idem' = [Snapshot(win, tokens, topIndex, bottomIndex,
                                     c.srvAt) EXCEPT
                              !.ok = (idem.valid /\ c.same) =>
                                     /\ idem.win = win
                                     /\ idem.toks = tokens
                                     /\ idem.top = topIndex
                                     /\ idem.bot = bottomIndex]
                /\ UNCHANGED <<tokens, lsTokens, bottomIndex>>
  /\ UNCHANGED <<srvLen, lsSession, topIndex, loading, loadingMore,
                 hasMoreHistory, error, loadingMoreRef, ld, loadMores, pend,
                 workerQueue, listeners>>
  /\ UNCHANGED <<name, session, srvState, otherLen>>
  /\ UNCHANGED aside

\* a listActivities call of a catchUp loop rejected: catchUp has no handler
\* of its own, the rejection reaches the caller (handleSend catches it and
\* sets the error; the polling callback only logs it)
CatchUpFail(i) ==
  /\ Quiet
  /\ catchUps[i].phase = "fetch"
  /\ LET c == catchUps[i]
     IN /\ error' = IF c.caller = "send" THEN "Failed to send message." ELSE error
        /\ sending' = IF c.caller = "send" THEN FALSE ELSE sending
  /\ catchUps' = RemoveAt(catchUps, i)
  /\ ev' = "catchUpFail"
  /\ idem' = NoIdem
  /\ UNCHANGED <<srvLen, lsSession, lsTokens, tokens, topIndex, bottomIndex,
                 activities, loading, isCatchingUp, loadingMore,
                 hasMoreHistory, loadingMoreRef, catchingUpRef, ld,
                 loadMores, pend, workerQueue, listeners, resumeQ>>
  /\ UNCHANGED <<name, session, srvState, otherLen>>
  /\ UNCHANGED aside

\* ------------------------------------------------------------ loadMore
\* loadMore that always reports more history
HasMoreAlways(newTopIndex) == TRUE

\* loadMore: setHasMoreHistory(newTopIndex > 0)
HasMoreAfter(newTopIndex) == newTopIndex > 0

\* no listActivities call is on its way and no page is with the worker
NoLoadInFlight ==
  /\ ld.pc \in {"done", "failed", "crashed"}
  /\ catchUps = <<>>
  /\ loadMores = <<>>
  /\ workerQueue = <<>>

\* loadMore guarded by topIndex alone
LoadMoreGuardNoRef == topIndex = 0

\* the early return of loadMore (apiKey is set in an open view)
LoadMoreGuard == topIndex = 0 \/ loadingMoreRef

\* loadMore() called from the scroll listener, the button or an effect:
\* everything up to the first await
LoadMoreCall ==
  /\ Quiet
  /\ ~loading
  /\ IF LoadMoreGuard
     THEN /\ ev' = "loadMoreSkip"
          /\ UNCHANGED <<loadingMoreRef, loadingMore, loadMores>>
     ELSE /\ ev' = "loadMoreStart"
          /\ loadingMoreRef' = TRUE
          /\ loadingMore' = TRUE
          /\ loadMores' = Append(loadMores,
                            [phase |-> "fetch", topIndex |-> topIndex,
                             prevToken |-> At(tokens, topIndex - 1),
                             newActs |-> <<>>, srvAt |-> 0, sess |-> name,
                             alone |-> NoLoadInFlight])
  /\ UNCHANGED <<srvLen, lsSession, lsTokens, tokens, topIndex, bottomIndex,
                 activities, loading, isCatchingUp, hasMoreHistory, error,
                 sending, catchingUpRef, ld, catchUps, pend, workerQueue,
                 listeners, resumeQ, idem>>
  /\ UNCHANGED <<name, session, srvState, otherLen>>
  /\ UNCHANGED aside

\* listActivities of a loadMore call answered: the page goes to the worker
LoadMoreFetched(i) ==
  /\ Quiet
  /\ loadMores[i].phase = "fetch"
  /\ LET m == loadMores[i]
         result == listActivitiesOf(m.sess, m.prevToken)
     IN /\ workerQueue' = Append(workerQueue, result.activities)
        /\ loadMores' = [loadMores EXCEPT ![i].phase = "process",
                                          ![i].srvAt = SrvOf(m.sess)]
  /\ listeners' = Append(listeners, "lm")
  /\ ev' = "loadMoreFetched"
  /\ UNCHANGED <<srvLen, lsSession, lsTokens, tokens, topIndex, bottomIndex,
                 activities, loading, isCatchingUp, loadingMore, hasMoreHistory,
                 error, sending, loadingMoreRef, catchingUpRef, ld, catchUps,
                 pend, resumeQ, idem>>
  /\ UNCHANGED <<name, session, srvState, otherLen>>
  /\ UNCHANGED aside

\* processActivities of a loadMore call resolved: prepend, move topIndex
LoadMoreApply(i) ==
  /\ resumeQ # <<>> /\ Head(resumeQ) = "lm"
  /\ loadMores[i].phase = "resolved"
  /\ resumeQ' = Tail(resumeQ)
  /\ LET m == loadMores[i]
         newTopIndex == m.topIndex - 1
     IN /\ activities' = m.newActs \o activities
        /\ topIndex' = newTopIndex
        /\ hasMoreHistory' = HasMoreAfter(newTopIndex)
  /\ loadingMore' = FALSE
  /\ loadingMoreRef' = FALSE
  /\ loadMores' = RemoveAt(loadMores, i)
  /\ ev' = "loadMorePage"
  /\ idem' = NoIdem
  /\ UNCHANGED <<srvLen, lsSession, lsTokens, tokens, bottomIndex, loading,
                 isCatchingUp, error, sending, catchingUpRef, ld, catchUps,
                 pend, workerQueue, listeners>>
  /\ UNCHANGED <<name, session, srvState, otherLen>>
  /\ UNCHANGED aside

\* a catch block of loadMore that releases the flags and reports nothing
LoadMoreErrorSilent == ""

\* loadMore, catch block: setError("Failed to load more activities.")
LoadMoreError == "Failed to load more activities."

\* the listActivities call of loadMore rejected
LoadMoreFail(i) ==
  /\ Quiet
  /\ loadMores[i].phase = "fetch"
  /\ error' = LoadMoreError
  /\ loadingMore' = FALSE
  /\ loadingMoreRef' = FALSE
  /\ loadMores' = RemoveAt(loadMores, i)
  /\ ev' = "loadMoreFail"
  /\ UNCHANGED <<srvLen, lsSession, lsTokens, tokens, topIndex, bottomIndex,
                 activities, loading, isCatchingUp, hasMoreHistory, sending,
                 catchingUpRef, ld, catchUps, pend, workerQueue, listeners,
                 resumeQ, idem>>
  /\ UNCHANGED <<name, session, srvState, otherLen>>
  /\ UNCHANGED aside

\* the window fills the scroll container (scrollHeight > clientHeight) once
\* it holds ViewportFill activities
ViewportFill == 3

Fills == Len(activities) >= ViewportFill

\* the condition of the layout effect (and, with topIndex # 0, of the
\* background effect) under which it calls loadMore by itself
AutoFillArmed ==
  /\ ~loading
  /\ ~loadingMore
  /\ ~isCatchingUp
  /\ hasMoreHistory
  /\ ~Fills

\* the layout effect finds the content too small and calls loadMore
AutoLoadMore == AutoFillArmed /\ LoadMoreCall

\* ------------------------------------------------------------ triggers
\* the form is submitted: handleSend runs up to `await sendMessage(...)`.
\* Its catchUp is the one of the render the handler belongs to.
HandleSend ==
  /\ Quiet
  /\ ~sending /\ ~loading
  /\ srvLen < MaxActs
  /\ sending' = TRUE
  /\ pend' = pend \cup {[kind |-> "send", toks |-> tokens,
                         bot |-> bottomIndex, sess |-> name]}
  /\ ev' = "handleSend"
  /\ UNCHANGED <<srvLen, lsSession, lsTokens, tokens, topIndex, bottomIndex,
                 activities, loading, isCatchingUp, loadingMore, hasMoreHistory,
                 error, loadingMoreRef, catchingUpRef, ld, catchUps, loadMores,
                 workerQueue, listeners, resumeQ, idem>>
  /\ UNCHANGED <<name, session, srvState, otherLen>>
  /\ UNCHANGED aside

\* sendMessage resolved: the server holds the user's message, catchUp is called
SendMessageOk(p) ==
  /\ Quiet
  /\ p.kind = "send"
  /\ SrvOf(p.sess) < MaxActs
  /\ IF p.sess = name
     THEN srvLen' = srvLen + 1 /\ UNCHANGED otherLen
     ELSE otherLen' = otherLen + 1 /\ UNCHANGED srvLen
  /\ pend' = pend \ {p}
  /\ CatchUpCall(p.toks, p.bot, p.sess, "send")
  /\ UNCHANGED <<lsSession, lsTokens, tokens, topIndex, bottomIndex, activities,
                 loading, loadingMore, hasMoreHistory, error, loadingMoreRef,
                 ld, loadMores, workerQueue, listeners, resumeQ, idem>>
  /\ UNCHANGED <<name, session, srvState>>
  /\ UNCHANGED aside

\* sendMessage rejected
SendMessageFail(p) ==
  /\ Quiet
  /\ p.kind = "send"
  /\ pend' = pend \ {p}
  /\ error' = "Failed to send message."
  /\ sending' = FALSE
  /\ ev' = "sendFail"
  /\ UNCHANGED <<srvLen, lsSession, lsTokens, tokens, topIndex, bottomIndex,
                 activities, loading, isCatchingUp, loadingMore, hasMoreHistory,
                 loadingMoreRef, catchingUpRef, ld, catchUps, loadMores,
                 workerQueue, listeners, resumeQ, idem>>
  /\ UNCHANGED <<name, session, srvState, otherLen>>
  /\ UNCHANGED aside

\* const finalStates = ["COMPLETED", "FAILED"]
finalStates == {"COMPLETED", "FAILED"}

\* the polling effect keeps its interval only while the view is neither
\* loading nor catching up and the session it holds is not in a final state
PollArmed == ~loading /\ ~isCatchingUp /\ session \notin finalStates

\* the polling interval fires: the callback runs up to `await getSession(...)`
PollTick ==
  /\ Quiet
  /\ PollArmed
  /\ bottomIndex < MaxBottom
  /\ \A p \in pend : p.kind # "poll"
  /\ pend' = pend \cup {[kind |-> "poll", toks |-> tokens,
                         bot |-> bottomIndex, sess |-> name]}
  /\ ev' = "pollTick"
  /\ UNCHANGED <<srvLen, lsSession, lsTokens, tokens, topIndex, bottomIndex,
                 activities, loading, isCatchingUp, loadingMore, hasMoreHistory,
                 error, sending, loadingMoreRef, catchingUpRef, ld, catchUps,
                 loadMores, workerQueue, listeners, resumeQ, idem>>
  /\ UNCHANGED <<name, session, srvState, otherLen>>
  /\ UNCHANGED aside

\* getSession of the polling callback resolved: catchUp is called
PollSessionOk(p) ==
  /\ Quiet
  /\ p.kind = "poll"
  /\ pend' = pend \ {p}
  /\ CatchUpCall(p.toks, p.bot, p.sess, "poll")
  /\ UNCHANGED <<srvLen, lsSession, lsTokens, tokens, topIndex, bottomIndex,
                 activities, loading, loadingMore, hasMoreHistory, error,
                 loadingMoreRef, ld, loadMores, workerQueue, listeners,
                 resumeQ, idem>>
  /\ session' = srvState
  /\ UNCHANGED <<name, srvState, otherLen>>
  /\ UNCHANGED aside

\* getSession of the polling callback rejected: logged, nothing else
PollSessionFail(p) ==
  /\ Quiet
  /\ p.kind = "poll"
  /\ pend' = pend \ {p}
  /\ ev' = "pollFail"
  /\ UNCHANGED <<srvLen, lsSession, lsTokens, tokens, topIndex, bottomIndex,
                 activities, loading, isCatchingUp, loadingMore, hasMoreHistory,
                 error, sending, loadingMoreRef, catchingUpRef, ld, catchUps,
                 loadMores, workerQueue, listeners, resumeQ, idem>>
  /\ UNCHANGED <<name, session, srvState, otherLen>>
  /\ UNCHANGED aside

\* the plan's approve button is disabled while an approval is under way
approvingPlan == \E p \in pend : p.kind \in {"approve", "approveSession"}

\* the approve button of a plan on screen is pressed: handleApprovePlan runs
\* up to `await approvePlan(...)`
HandleApprovePlan ==
  /\ Quiet
  /\ ~loading /\ activities # <<>>
  /\ ~approvingPlan
  /\ bottomIndex < MaxBottom
  /\ pend' = pend \cup {[kind |-> "approve", toks |-> tokens,
                         bot |-> bottomIndex, sess |-> name]}
  /\ ev' = "handleApprovePlan"
  /\ UNCHANGED <<srvLen, lsSession, lsTokens, tokens, topIndex, bottomIndex,
                 activities, loading, isCatchingUp, loadingMore, hasMoreHistory,
                 error, sending, loadingMoreRef, catchingUpRef, ld, catchUps,
                 loadMores, workerQueue, listeners, resumeQ, idem>>
  /\ UNCHANGED <<name, session, srvState, otherLen>>
  /\ UNCHANGED aside

\* approvePlan resolved: the server has the approval, the handler goes on to
\* `await getSession(...)`
ApprovePlanOk(p) ==
  /\ Quiet
  /\ p.kind = "approve"
  /\ pend' = (pend \ {p}) \cup {[p EXCEPT !.kind = "approveSession"]}
  /\ ev' = "approved"
  /\ UNCHANGED <<srvLen, lsSession, lsTokens, tokens, topIndex, bottomIndex,
                 activities, loading, isCatchingUp, loadingMore, hasMoreHistory,
                 error, sending, loadingMoreRef, catchingUpRef, ld, catchUps,
                 loadMores, workerQueue, listeners, resumeQ, idem>>
  /\ UNCHANGED <<name, session, srvState, otherLen>>
  /\ UNCHANGED aside

\* approvePlan rejected: the catch block logs, finally clears approvingPlan
ApprovePlanFail(p) ==
  /\ Quiet
  /\ p.kind = "approve"
  /\ pend' = pend \ {p}
  /\ ev' = "approveFail"
  /\ UNCHANGED <<srvLen, lsSession, lsTokens, tokens, topIndex, bottomIndex,
                 activities, loading, isCatchingUp, loadingMore, hasMoreHistory,
                 error, sending, loadingMoreRef, catchingUpRef, ld, catchUps,
                 loadMores, workerQueue, listeners, resumeQ, idem>>
  /\ UNCHANGED <<name, session, srvState, otherLen>>
  /\ UNCHANGED aside

\* getSession of handleApprovePlan resolved: setSession, then `void catchUp()`
ApproveSessionOk(p) ==
  /\ Quiet
  /\ p.kind = "approveSession"
  /\ pend' = pend \ {p}
  /\ session' = srvState
  /\ CatchUpCall(p.toks, p.bot, p.sess, "approve")
  /\ UNCHANGED <<srvLen, lsSession, lsTokens, tokens, topIndex, bottomIndex,
                 activities, loading, loadingMore, hasMoreHistory, error,
                 loadingMoreRef, ld, loadMores, workerQueue, listeners,
                 resumeQ, idem>>
  /\ UNCHANGED <<name, srvState, otherLen>>
  /\ UNCHANGED aside

\* getSession of handleApprovePlan rejected after the approval went through:
\* the same catch block logs, catchUp is not reached
ApproveSessionFail(p) ==
  /\ Quiet
  /\ p.kind = "approveSession"
  /\ pend' = pend \ {p}
  /\ ev' = "approveSessionFail"
  /\ UNCHANGED <<srvLen, lsSession, lsTokens, tokens, topIndex, bottomIndex,
                 activities, loading, isCatchingUp, loadingMore, hasMoreHistory,
                 error, sending, loadingMoreRef, catchingUpRef, ld, catchUps,
                 loadMores, workerQueue, listeners, resumeQ, idem>>
  /\ UNCHANGED <<name, session, srvState, otherLen>>
  /\ UNCHANGED aside

\* ------------------------------------------------------------- environment
\* the agent (or another client) adds an activity to the session
ServerAppend ==
  /\ Quiet
  /\ srvLen < MaxActs
  /\ srvLen' = srvLen + 1
  /\ ev' = "server"
  /\ UNCHANGED <<lsSession, lsTokens, tokens, topIndex, bottomIndex, activities,
                 loading, isCatchingUp, loadingMore, hasMoreHistory, error,
                 sending, loadingMoreRef, catchingUpRef, ld, catchUps,
                 loadMores, pend, workerQueue, listeners, resumeQ, idem>>
  /\ UNCHANGED <<name, session, srvState, otherLen>>
  /\ UNCHANGED aside

\* the session's state changes on the server: the agent finishes, or a
\* finished session is taken up again
ServerStateChange ==
  /\ Quiet
  /\ srvState' \in {"IN_PROGRESS", "COMPLETED"} \ {srvState}
  /\ ev' = "serverState"
  /\ UNCHANGED <<srvLen, lsSession, lsTokens, tokens, topIndex, bottomIndex,
                 activities, loading, isCatchingUp, loadingMore, hasMoreHistory,
                 error, sending, loadingMoreRef, catchingUpRef, ld, catchUps,
                 loadMores, pend, workerQueue, listeners, resumeQ, idem>>
  /\ UNCHANGED <<name, session, otherLen>>
  /\ UNCHANGED aside

Idle == /\ ld.pc \in {"done", "failed"}
        /\ catchUps = <<>>
        /\ loadMores = <<>>
        /\ pend = {}
        /\ workerQueue = <<>>
        /\ resumeQ = <<>>

\* the user leaves the idle view and opens the session again: a new
\* component instance with fresh state, refs and worker; localStorage is kept
Remount ==
  /\ Idle
  /\ tokens' = IF InitialTokensThrows THEN <<>> ELSE InitialTokens
  /\ topIndex' = 0
  /\ bottomIndex' = 0
  /\ activities' = <<>>
  /\ loading' = TRUE
  /\ isCatchingUp' = FALSE
  /\ loadingMore' = FALSE
  /\ hasMoreHistory' = FALSE
  /\ error' = ""
  /\ sending' = FALSE
  /\ loadingMoreRef' = FALSE
  /\ catchingUpRef' = FALSE
  /\ ld' = IF InitialTokensThrows THEN LdCrashed ELSE LdStart
  /\ listeners' = <<>>
  /\ ev' = "mount"
  /\ idem' = NoIdem
  /\ UNCHANGED <<srvLen, lsSession, lsTokens, catchUps, loadMores, pend,
                 workerQueue, resumeQ>>
  /\ session' = "none"
  /\ UNCHANGED <<name, srvState, otherLen>>
  /\ UNCHANGED aside

\* the route changes from /sessions/1 to /sessions/2 (the address is edited):
\* the router renders the same SessionView element, so the component keeps
\* its state, refs, worker and running loops; useParams gives the new name
\* and the effects that depend on it run again: loadData starts for the new
\* session (setLoading(true), then `await getSession`).  Session 2 is opened
\* for the first time in this browser.
Switch ==
  /\ Quiet
  /\ name = 1
  /\ ld.pc \in {"done", "failed"}
  /\ name' = 2
  /\ otherLen' = srvLen
  /\ srvLen' \in 0..MaxActs
  /\ lsSession' = NoSession
  /\ lsTokens' = NoTokens
  /\ ld' = LdStart
  /\ loading' = TRUE
  /\ ev' = "switch"
  /\ idem' = NoIdem
  /\ UNCHANGED <<tokens, topIndex, bottomIndex, activities, isCatchingUp,
                 loadingMore, hasMoreHistory, error, sending, loadingMoreRef,
                 catchingUpRef, catchUps, loadMores, pend, workerQueue,
                 listeners, resumeQ, session, srvState>>
  /\ UNCHANGED aside

Next ==
  \/ WorkerReply
  \/ LoadDataPosition
  \/ LoadDataFetched
  \/ LoadDataApply
  \/ LoadDataFail
  \/ \E i \in DOMAIN catchUps : CatchUpFetched(i)
  \/ \E i \in DOMAIN catchUps : CatchUpApply(i)
  \/ \E i \in DOMAIN catchUps : CatchUpFail(i)
  \/ LoadMoreCall
  \/ \E i \in DOMAIN loadMores : LoadMoreFetched(i)
  \/ \E i \in DOMAIN loadMores : LoadMoreApply(i)
  \/ \E i \in DOMAIN loadMores : LoadMoreFail(i)
  \/ HandleSend
  \/ \E p \in pend : SendMessageOk(p)
  \/ \E p \in pend : SendMessageFail(p)
  \/ PollTick
  \/ \E p \in pend : PollSessionOk(p)
  \/ \E p \in pend : PollSessionFail(p)
  \/ ServerAppend
  \/ Remount

Spec == Init /\ [][Next]_vars

\* ------------------------------------------- approving a plan, sending
\* a session opened for the first time; the user sends messages and approves
\* plans, every request may be answered or rejected
NextApprove ==
  \/ WorkerReply
  \/ LoadDataPosition
  \/ LoadDataFetched
  \/ LoadDataApply
  \/ LoadDataFail
  \/ \E i \in DOMAIN catchUps : CatchUpFetched(i)
  \/ \E i \in DOMAIN catchUps : CatchUpApply(i)
  \/ \E i \in DOMAIN catchUps : CatchUpFail(i)
  \/ HandleSend
  \/ \E p \in pend : SendMessageOk(p)
  \/ \E p \in pend : SendMessageFail(p)
  \/ HandleApprovePlan
  \/ \E p \in pend : ApprovePlanOk(p)
  \/ \E p \in pend : ApprovePlanFail(p)
  \/ \E p \in pend : ApproveSessionOk(p)
  \/ \E p \in pend : ApproveSessionFail(p)

SpecApprove == Init /\ [][NextApprove]_vars

\* --------------------------------------------- an open view left alone
\* a session in any state opened for the first time in this browser
InitPoll ==
  /\ srvLen \in 0..MaxActs
  /\ lsSession = NoSession
  /\ lsTokens = NoTokens
  /\ ViewAtMount
  /\ name = 1
  /\ srvState \in {"IN_PROGRESS", "COMPLETED"}
  /\ otherLen = 0
  /\ AsideAtStart

\* the view positions itself and polls; the user does nothing and every
\* request is answered
NextPoll ==
  \/ WorkerReply
  \/ LoadDataPosition
  \/ LoadDataFetched
  \/ LoadDataApply
  \/ \E i \in DOMAIN catchUps : CatchUpFetched(i)
  \/ \E i \in DOMAIN catchUps : CatchUpApply(i)
  \/ PollTick
  \/ \E p \in pend : PollSessionOk(p)
  \/ ServerStateChange

\* the browser runs what is ready: an armed interval fires, an answered
\* request and a worker reply are delivered, a resolved promise continues
FairPoll ==
  /\ WF_vars(WorkerReply)
  /\ WF_vars(LoadDataPosition)
  /\ WF_vars(LoadDataFetched)
  /\ WF_vars(LoadDataApply)
  /\ WF_vars(\E i \in DOMAIN catchUps : CatchUpFetched(i))
  /\ WF_vars(\E i \in DOMAIN catchUps : CatchUpApply(i))
  /\ WF_vars(PollTick)
  /\ WF_vars(\E p \in pend : PollSessionOk(p))

SpecPoll == InitPoll /\ [][NextPoll]_vars /\ FairPoll

\* ------------------------------------------- changing to another session
\* the view positions itself and polls, every request is answered, and the
\* route may change to another session once
NextSwitch ==
  \/ WorkerReply
  \/ LoadDataPosition
  \/ LoadDataFetched
  \/ LoadDataApply
  \/ \E i \in DOMAIN catchUps : CatchUpFetched(i)
  \/ \E i \in DOMAIN catchUps : CatchUpApply(i)
  \/ PollTick
  \/ \E p \in pend : PollSessionOk(p)
  \/ Switch

SpecSwitch == Init /\ [][NextSwitch]_vars

\* ------------------------------------------ opening on any stored content
MaxStored == 2      \* longest array with a bad entry found in localStorage

\* the ledger <<"", c1, .., ck>> of the server's cursor chain
ChainPrefix(k) == [i \in 1..(k + 1) |-> i - 1]

\* the ledgers an earlier visit can have stored for a server holding n activities
KnownLedgers(n) ==
  {ChainPrefix(k) : k \in {j \in 0..MaxBottom : j = 0 \/ j * PageSize < n}}

\* stored arrays no visit wrote: empty, or with an entry that is not a string
CorruptArrays ==
  {<<>>} \cup {Append(ChainPrefix(k), NotString) : k \in 0..(MaxStored - 2)}
         \cup {<<NotString>>}

\* what may be found under jules_session_<name>: nothing, text that does not
\* parse, a record whose tokens field is a number, a record with an array
StoredSessions(n) ==
  {NoSession,
   [NoSession EXCEPT !.present = TRUE, !.parses = FALSE],
   [NoSession EXCEPT !.present = TRUE, !.isArray = FALSE]}
  \cup {SavedSession(L, t) : L \in KnownLedgers(n) \cup CorruptArrays,
                             t \in {Undefined, NotString}}

\* what may be found under jules_tokens_<name>
StoredTokens(n) ==
  {NoTokens, [NoTokens EXCEPT !.present = TRUE, !.parses = FALSE]}
  \cup {SavedTokens(L) : L \in KnownLedgers(n) \cup CorruptArrays}

\* the session view is opened in a browser whose localStorage holds anything
InitOpen ==
  /\ srvLen \in 0..MaxActs
  /\ lsSession \in StoredSessions(srvLen)
  /\ lsTokens \in StoredTokens(srvLen)
  /\ ViewAtMount
  /\ name = 1
  /\ srvState = "IN_PROGRESS"
  /\ otherLen = 0
  /\ AsideAtStart

\* the view is opened and positions itself; nothing else happens
NextOpen ==
  \/ WorkerReply
  \/ LoadDataPosition
  \/ LoadDataFetched
  \/ LoadDataApply
  \/ LoadDataFail

SpecOpen == InitOpen /\ [][NextOpen]_vars

\* ------------------------------------- positioning with answered requests
\* the view is opened on any stored content and positions itself; the user
\* may send messages meanwhile; every request is answered, with a result or
\* (for the requests of loadData) with an error
NextSteady ==
  \/ WorkerReply
  \/ LoadDataPosition
  \/ LoadDataFetched
  \/ LoadDataApply
  \/ LoadDataFail
  \/ \E i \in DOMAIN catchUps : CatchUpFetched(i)
  \/ \E i \in DOMAIN catchUps : CatchUpApply(i)
  \/ HandleSend
  \/ \E p \in pend : SendMessageOk(p)

\* every request gets its answer, the worker replies, resolved promises go on
FairSteady ==
  /\ WF_vars(WorkerReply)
  /\ WF_vars(LoadDataPosition \/ LoadDataFail)
  /\ WF_vars(LoadDataFetched \/ LoadDataFail)
  /\ WF_vars(LoadDataApply)
  /\ WF_vars(\E i \in DOMAIN catchUps : CatchUpFetched(i))
  /\ WF_vars(\E i \in DOMAIN catchUps : CatchUpApply(i))
  /\ WF_vars(\E p \in pend : SendMessageOk(p))

SpecSteady == InitOpen /\ [][NextSteady]_vars /\ FairSteady

\* ------------------------------------------------- filling the viewport
\* the view is opened on any stored content, positions itself, polls and
\* loads older pages by itself; the user does nothing; a fetch of catchUp or
\* loadMore may be rejected
NextFill ==
  \/ WorkerReply
  \/ LoadDataPosition
  \/ LoadDataFetched
  \/ LoadDataApply
  \/ \E i \in DOMAIN catchUps : CatchUpFetched(i)
  \/ \E i \in DOMAIN catchUps : CatchUpApply(i)
  \/ \E i \in DOMAIN catchUps : CatchUpFail(i)
  \/ AutoLoadMore
  \/ \E i \in DOMAIN loadMores : LoadMoreFetched(i)
  \/ \E i \in DOMAIN loadMores : LoadMoreApply(i)
  \/ \E i \in DOMAIN loadMores : LoadMoreFail(i)
  \/ PollTick
  \/ \E p \in pend : PollSessionOk(p)

\* an armed interval fires, every request is answered, resolved promises go
\* on; the layout effect runs in the commit of every render in which its
\* condition holds, so it is not passed over however often the condition
\* comes and goes
FairFill ==
  /\ WF_vars(WorkerReply)
  /\ WF_vars(LoadDataPosition)
  /\ WF_vars(LoadDataFetched)
  /\ WF_vars(LoadDataApply)
  /\ WF_vars(\E i \in DOMAIN catchUps : CatchUpFetched(i) \/ CatchUpFail(i))
  /\ WF_vars(\E i \in DOMAIN catchUps : CatchUpApply(i))
  /\ SF_vars(AutoLoadMore)
  /\ WF_vars(\E i \in DOMAIN loadMores : LoadMoreFetched(i) \/ LoadMoreFail(i))
  /\ WF_vars(\E i \in DOMAIN loadMores : LoadMoreApply(i))
  /\ WF_vars(PollTick)
  /\ WF_vars(\E p \in pend : PollSessionOk(p))

SpecFill == InitOpen /\ [][NextFill]_vars /\ FairFill

\* ------------------------------------------------------- polling timers
MaxTimerId == 20    \* setInterval ids handed out in one run of the model

\* the variables of the view other than those the polling effect depends on
viewRest == <<srvLen, lsSession, lsTokens, tokens, topIndex, bottomIndex,
              activities, loadingMore, hasMoreHistory, error, sending,
              loadingMoreRef, catchingUpRef, ld, catchUps, loadMores, pend,
              workerQueue, listeners, resumeQ, idem, name, srvState, otherLen>>

\* a clearInterval that clears nothing
ClearNothing(armed, ref) == armed

\* clearInterval(ref) on the intervals the browser holds; null clears nothing
ClearInterval(armed, ref) == {t \in armed : t.id # ref}

\* the cleanup function the effect returned, if it returned one: it clears
\* whatever the two refs hold and sets them to null
RunCleanup(f) ==
  IF f.cleanup
  THEN [f EXCEPT !.armed = ClearInterval(ClearInterval(@, f.pollingIntervalRef),
                                         f.progressIntervalRef),
                 !.pollingIntervalRef = NoInterval,
                 !.progressIntervalRef = NoInterval,
                 !.cleanup = FALSE]
  ELSE f

\* the body of the polling effect for a render that saw loading = l,
\* isCatchingUp = c and session state st
EffectBody(f, l, c, st) ==
  IF l \/ c
  THEN [f EXCEPT !.armed = ClearInterval(ClearInterval(@, f.pollingIntervalRef),
                                         f.progressIntervalRef),
                 !.pollingIntervalRef = NoInterval,
                 !.progressIntervalRef = NoInterval,
                 !.cleanup = FALSE,
                 !.firstId = f.nextId]
  ELSE IF st \in finalStates
  THEN [f EXCEPT !.cleanup = FALSE, !.firstId = f.nextId]
  ELSE [f EXCEPT !.armed = @ \cup {[kind |-> "progress", id |-> f.nextId],
                                   [kind |-> "poll", id |-> f.nextId + 1]},
                 !.progressIntervalRef = f.nextId,
                 !.pollingIntervalRef = f.nextId + 1,
                 !.cleanup = TRUE,
                 !.firstId = f.nextId,
                 !.nextId = f.nextId + 2]

\* a render changed one of the effect's dependencies (loading, isCatchingUp,
\* session?.state, or catchUp, which changes with tokens and bottomIndex):
\* React runs the cleanup of the previous run, then the effect
PollingEffect(l, c, st) ==
  /\ pollFx.mounted
  /\ pollFx.nextId + 1 <= MaxTimerId
  /\ loading' = l
  /\ isCatchingUp' = c
  /\ session' = st
  /\ pollFx' = EffectBody(RunCleanup(pollFx), l, c, st)
  /\ ev' = "pollingEffect"
  /\ UNCHANGED <<viewRest, settings, page>>

\* the view is disposed: React runs the cleanup of the last run
Unmount ==
  /\ pollFx.mounted
  /\ pollFx' = [RunCleanup(pollFx) EXCEPT !.mounted = FALSE]
  /\ ev' = "unmount"
  /\ UNCHANGED <<viewRest, loading, isCatchingUp, session, settings, page>>

NextTimers ==
  \/ \E l \in BOOLEAN, c \in BOOLEAN,
        st \in {"none", "IN_PROGRESS", "COMPLETED", "FAILED"} :
          PollingEffect(l, c, st)
  \/ Unmount

SpecTimers == Init /\ [][NextTimers]_vars

\* ------------------------------------------------------------- page size
MaxOver == 3        \* how far outside 1..100 the sizes passed to setPageSize go

\* the variables of the session view
viewVars == <<viewRest, loading, isCatchingUp, session>>

Max(a, b) == IF a > b THEN a ELSE b

DigitChars == <<"0", "1", "2", "3", "4", "5", "6", "7", "8", "9">>

RECURSIVE Digits(_)
Digits(n) ==
  IF n < 10 THEN <<DigitChars[n + 1]>>
  ELSE Append(Digits(n \div 10), DigitChars[(n % 10) + 1])

\* Number.prototype.toString() of an integer: its decimal digits, "-" first
\* when negative
toString(n) == IF n < 0 THEN <<"-">> \o Digits(0 - n) ELSE Digits(n)

DigitValue(ch) == CHOOSE d \in 0..9 : DigitChars[d + 1] = ch

RECURSIVE DigitsValue(_)
DigitsValue(str) ==
  IF str = <<>> THEN 0
  ELSE 10 * DigitsValue(SubSeq(str, 1, Len(str) - 1)) + DigitValue(str[Len(str)])

\* parseInt(str, 10) of a string made of an optional "-" and decimal digits
ParseInt(str) ==
  IF Head(str) = "-" THEN 0 - DigitsValue(Tail(str)) ELSE DigitsValue(str)

\* setPageSize storing the size as given
ValidSizeAsGiven(size) == size

\* setPageSize: const validSize = Math.max(1, Math.min(100, size))
ValidSize(size) == Max(1, Min(100, size))

\* setPageSize(size) called from the settings page with an integer
SetPageSize(size) ==
  /\ settings' = [pageSize |-> ValidSize(size),
                  stored |-> toString(ValidSize(size)),
                  size |-> size]
  /\ ev' = "setPageSize"
  /\ UNCHANGED <<viewVars, pollFx, page>>

\* the page is loaded again: the useState initialiser reads jules_page_size
ReloadSettings ==
  /\ settings' = [settings EXCEPT
                    !.pageSize = IF settings.stored = NothingStored
                                 THEN DefaultPageSize
                                 ELSE ParseInt(settings.stored)]
  /\ ev' = "reloadSettings"
  /\ UNCHANGED <<viewVars, pollFx, page>>

NextSettings ==
  \/ \E size \in (0 - MaxOver)..(DefaultPageSize + MaxOver) : SetPageSize(size)
  \/ ReloadSettings

SpecSettings == Init /\ [][NextSettings]_vars

\* ------------------------------------------------- the worker's truncation
MaxPage == 2        \* activities in a page posted to the worker
MaxArtifacts == 2   \* artifacts of one activity
MaxDelta == 1       \* how far text lengths go past the threshold

\* const maxSize = 20 * 1024
maxSize == 20 * 1024

\* a string field of an artifact: absent, or a text of `length` characters;
\* marker says that the text ends with "\n\n... (truncated, <n>KB total)"
\* (its length then counts the characters before the marker)
NoText == [present |-> FALSE, length |-> 0, marker |-> FALSE]

Text(n) == [present |-> TRUE, length |-> n, marker |-> FALSE]

\* patch.substring(0, maxSize) + "\n\n... (truncated, ...KB total)"
Cut(text) == [text EXCEPT !.length = Min(maxSize, text.length), !.marker = TRUE]

\* the callback of artifacts.map: an oversized patch is cut and the artifact
\* returned at once; otherwise an oversized output is cut; else the artifact
\* is returned as it is.  A field that is absent or "" is skipped.
truncateArtifact(artifact) ==
  IF /\ artifact.unidiffPatch.present /\ artifact.unidiffPatch.length > 0
     /\ artifact.unidiffPatch.length > maxSize
  THEN [artifact EXCEPT !.unidiffPatch = Cut(@)]
  ELSE IF /\ artifact.output.present /\ artifact.output.length > 0
          /\ artifact.output.length > maxSize
  THEN [artifact EXCEPT !.output = Cut(@)]
  ELSE artifact

\* truncateActivities(acts, truncateDiffs) on activities with their payload
truncatePage(acts, truncateDiffs) ==
  IF ~truncateDiffs THEN acts
  ELSE [i \in DOMAIN acts |->
          IF ~acts[i].hasArtifacts THEN acts[i]
          ELSE [acts[i] EXCEPT !.artifacts =
                  [j \in DOMAIN @ |-> truncateArtifact(@[j])]]]

\* the texts, artifacts, activities and pages the server may send
Texts ==
  {NoText} \cup {Text(n) : n \in (maxSize + 1 - MaxDelta)..(maxSize + MaxDelta)}

Artifacts == [unidiffPatch : Texts, output : Texts]

ArtifactLists == UNION {[1..k -> Artifacts] : k \in 0..MaxArtifacts}

ActivitiesAt(i) ==
  {[name |-> i, hasArtifacts |-> FALSE, artifacts |-> <<>>]}
  \cup {[name |-> i, hasArtifacts |-> TRUE, artifacts |-> L] : L \in ArtifactLists}

PagesPosted ==
  UNION {{p \in [1..k -> UNION {ActivitiesAt(i) : i \in 1..k}] :
            \A i \in 1..k : p[i].name = i} : k \in 0..MaxPage}

\* a page is about to be posted to the worker, with either setting
InitWorker ==
  /\ srvLen = 0
  /\ lsSession = NoSession
  /\ lsTokens = NoTokens
  /\ ViewAtMount
  /\ name = 1
  /\ srvState = "IN_PROGRESS"
  /\ otherLen = 0
  /\ pollFx = PollFxAtMount
  /\ settings = SettingsAtStart
  /\ page \in {[activities |-> p, truncateDiffs |-> t, processed |-> <<>>,
                 posted |-> FALSE] : p \in PagesPosted, t \in BOOLEAN}

\* self.onmessage: the worker processes the page and posts the result
WorkerProcess ==
  /\ ~page.posted
  /\ page' = [page EXCEPT
                !.processed = truncatePage(page.activities, page.truncateDiffs),
                !.posted = TRUE]
  /\ ev' = "workerProcess"
  /\ UNCHANGED <<viewVars, pollFx, settings>>

NextWorker == WorkerProcess

SpecWorker == InitWorker /\ [][NextWorker]_vars

\* ------------------------------------------------ saveCache and loadCache
MaxLedger == 2      \* longest ledger handed to saveCache
MaxCursor == 2      \* cursors "", "c1" .. of the ledgers handed to saveCache

\* every non-empty ledger of strings, whether or not it is a cursor chain
Ledgers == UNION {[1..k -> 0..MaxCursor] : k \in 1..MaxLedger}

\* windows whose newest activity has each createTime, or none
Windows == {<<>>} \cup {<<a>> : a \in 1..MaxActs}

\* a view at rest holding any ledger and window, over any stored content
InitCache ==
  /\ srvLen = MaxActs
  /\ lsSession \in StoredSessions(srvLen)
  /\ lsTokens \in StoredTokens(srvLen)
  /\ tokens \in Ledgers
  /\ topIndex = 0
  /\ bottomIndex = 0
  /\ activities \in Windows
  /\ loading = FALSE
  /\ isCatchingUp = FALSE
  /\ loadingMore = FALSE
  /\ hasMoreHistory = FALSE
  /\ error = ""
  /\ sending = FALSE
  /\ loadingMoreRef = FALSE
  /\ catchingUpRef = FALSE
  /\ ld = [LdStart EXCEPT !.pc = "done"]
  /\ catchUps = <<>>
  /\ loadMores = <<>>
  /\ pend = {}
  /\ workerQueue = <<>>
  /\ listeners = <<>>
  /\ resumeQ = <<>>
  /\ ev = "mount"
  /\ idem = NoIdem
  /\ name = 1
  /\ session = "IN_PROGRESS"
  /\ srvState = "IN_PROGRESS"
  /\ otherLen = 0
  /\ AsideAtStart

\* saveCache(updatedTokens, lastActivity?.createTime) as loadData calls it,
\* with the ledger and the window it has just set
SaveCacheStep ==
  /\ lsSession' = SavedSession(tokens, LastCreateTime(activities))
  /\ lsTokens' = SavedTokens(tokens)
  /\ ev' = "saveCache"
  /\ UNCHANGED <<srvLen, tokens, topIndex, bottomIndex, activities, loading,
                 isCatchingUp, loadingMore, hasMoreHistory, error, sending,
                 loadingMoreRef, catchingUpRef, ld, catchUps, loadMores, pend,
                 workerQueue, listeners, resumeQ, idem>>
  /\ UNCHANGED <<name, session, srvState, otherLen>>
  /\ UNCHANGED aside

\* loadCache() called on its own: its catch block clears both keys
LoadCacheStep ==
  /\ lsSession' = ClearedIfThrown(lsSession, NoSession)
  /\ lsTokens' = ClearedIfThrown(lsTokens, NoTokens)
  /\ ev' = IF loadCache.hit THEN "cacheHit" ELSE "cacheMiss"
  /\ UNCHANGED <<srvLen, tokens, topIndex, bottomIndex, activities, loading,
                 isCatchingUp, loadingMore, hasMoreHistory, error, sending,
                 loadingMoreRef, catchingUpRef, ld, catchUps, loadMores, pend,
                 workerQueue, listeners, resumeQ, idem>>
  /\ UNCHANGED <<name, session, srvState, otherLen>>
  /\ UNCHANGED aside

NextCache ==
  \/ SaveCacheStep
  \/ LoadCacheStep

SpecCache == InitCache /\ [][NextCache]_vars

\* ---------------------------------------------------------------- claims
\* C1: in every reachable state of an open session view
\* 0 <= topIndex <= bottomIndex <= length(tokens) - 1.
C1_PositionWithinLedger ==
  /\ 0 <= topIndex
  /\ topIndex <= bottomIndex
  /\ bottomIndex <= Len(tokens) - 1

\* C2: no two entries of the activity window have the same activity name.
C2_NoDuplicateNames ==
  \A i, j \in DOMAIN activities : activities[i] = activities[j] => i = j

\* the cursor whose page holds activity a, and the ledger position of a cursor
CursorOf(a) == (a - 1) \div PageSize
LedgerPos(c) == CHOOSE i \in 0..(Len(tokens) - 1) : At(tokens, i) = c

\* C3: the window is ordered consistently with the ledger: activities of the
\* page of ledger position i precede those of position i+1, and activities of
\* one page keep the order of the fetch response.
C3_WindowInLedgerOrder ==
  \A i, j \in DOMAIN activities :
    (i < j /\ Includes(tokens, CursorOf(activities[i]))
           /\ Includes(tokens, CursorOf(activities[j])))
    => \/ LedgerPos(CursorOf(activities[i])) < LedgerPos(CursorOf(activities[j]))
       \/ /\ CursorOf(activities[i]) = CursorOf(activities[j])
          /\ activities[i] <= activities[j]

\* no call is between its first fetch and its last state update
NoFetchInFlight ==
  /\ ld.pc \in {"done", "failed"}
  /\ catchUps = <<>>
  /\ loadMores = <<>>

\* the pages of ledger positions lo..hi of a server holding n activities
RECURSIVE ConcatPages(_, _, _)
ConcatPages(lo, hi, n) ==
  IF lo > hi THEN <<>>
  ELSE PageActs(At(tokens, lo), n) \o ConcatPages(lo + 1, hi, n)

\* s without the later occurrences of a name
RECURSIVE Dedup(_)
Dedup(s) ==
  IF s = <<>> THEN <<>>
  ELSE LET r == Dedup(SubSeq(s, 1, Len(s) - 1))
       IN IF Includes(r, s[Len(s)]) THEN r ELSE Append(r, s[Len(s)])

\* C4: whenever no fetch is in flight, the window is the concatenation, in
\* ledger order, of the pages of positions topIndex..bottomIndex (as the
\* server held them at some moment up to now), duplicates removed.  Stated
\* for the states in which topIndex..bottomIndex is a range of the ledger.
C4_WindowIsRangeOfPages ==
  (NoFetchInFlight /\ C1_PositionWithinLedger) =>
    \E n \in 0..srvLen :
      activities = Dedup(ConcatPages(topIndex, bottomIndex, n))

\* C5: a loadMore fetch and a catchUp loop are never in flight together.
C5_DirectionsSerialized == ~(loadMores # <<>> /\ catchUps # <<>>)

\* C6: right after a fetch of a positioning or catchUp loop failed, an error
\* is shown, the window holds the pages that succeeded, the ledger holds
\* exactly the cursors those pages returned and bottomIndex is the ledger
\* index of the last of them.
C6_FailureKeepsProgress ==
  /\ (ev = "loadDataFail" /\ ld.updatedTokens # <<>>) =>
       /\ error # ""
       /\ activities = ld.acts
       /\ tokens = ld.updatedTokens
       /\ At(tokens, bottomIndex) = ld.currentToken
  /\ ev = "catchUpFail" =>
       /\ error # ""
       /\ bottomIndex <= Len(tokens) - 1

\* C7: right after a fetch of a catchUp loop failed, the single-flight guard
\* and isCatchingUp are released, so that a later trigger fetches again.
C7_GuardReleasedOnFailure ==
  ev = "catchUpFail" => (~catchingUpRef /\ ~isCatchingUp)

\* C8: at most one loadMore fetch is in flight, and a loadMore call made
\* while topIndex = 0 or while another loadMore is in flight issues no fetch
\* and changes neither the window, the ledger nor topIndex.
C8_LoadMoreSingleFlight ==
  /\ [](Len(loadMores) <= 1)
  /\ [][(/\ ev' \in {"loadMoreStart", "loadMoreSkip"}
         /\ (topIndex = 0 \/ loadMores # <<>>))
        => UNCHANGED <<loadMores, workerQueue, activities, tokens, topIndex,
                       bottomIndex, hasMoreHistory, loadingMore>>]_vars

\* a loadMore call was made, and skipped, while a loadMore fetch is in flight
C8_Witness == ev = "loadMoreSkip" /\ Len(loadMores) = 1 /\ topIndex > 0

\* C9: at most one catchUp loop is in flight, and a catchUp call made while
\* another is in flight returns without a fetch and without changing the
\* window, the ledger, the position or the catch-up flags.
C9_CatchUpSingleFlight ==
  /\ [](Len(catchUps) <= 1)
  /\ [][(/\ ev' \in {"catchUpStart", "catchUpSkip"}
         /\ catchUps # <<>>)
        => UNCHANGED <<catchUps, workerQueue, activities, tokens, lsTokens,
                       topIndex, bottomIndex, isCatchingUp, catchingUpRef>>]_vars

\* a catchUp call was made, and skipped, while a catchUp loop is in flight
C9_Witness == ev = "catchUpSkip" /\ Len(catchUps) = 1

\* C10: when catchUp completes twice in a row and the server gained nothing
\* in between, window, ledger and position after the second run equal those
\* after the first.
C10_CatchUpIdempotent == idem.ok

\* C11: the ledger never holds a cursor twice, its index 0 is "", and it
\* holds every cursor the loops of this view have received from the server
\* and recorded, whether or not a cursor was received more than once.
C11_LedgerIsDistinctCursors ==
  /\ At(tokens, 0) = 0
  /\ \A i, j \in DOMAIN tokens : tokens[i] = tokens[j] => i = j
  /\ ld.pc \in {"fetch", "process", "resolved", "failed"} =>
       \A k \in DOMAIN ld.updatedTokens : Includes(tokens, ld.updatedTokens[k])
  /\ \A i \in DOMAIN catchUps :
       \A k \in DOMAIN catchUps[i].updatedTokens :
         Includes(tokens, catchUps[i].updatedTokens[k])

IsPrefix(a, b) == Len(a) <= Len(b) /\ SubSeq(b, 1, Len(a)) = a

\* C12: within the lifetime of one view, across every step the previous
\* ledger is a prefix of the new ledger.
C12_LedgerOnlyGrows ==
  [][ev' # "mount" => IsPrefix(tokens, tokens')]_vars

\* C13: for every i with 0 <= i < length(tokens) - 1, tokens[i+1] is the
\* cursor the server returns with the page of tokens[i], and the activities
\* of that page are exactly those right before the page of tokens[i+1].
C13_LedgerFollowsChain ==
  \A i \in 0..(Len(tokens) - 2) :
    /\ At(tokens, i + 1) = PageNext(At(tokens, i), srvLen)
    /\ LET p == PageActs(At(tokens, i), srvLen)
           q == PageActs(At(tokens, i + 1), srvLen)
       IN /\ Len(p) = PageSize
          /\ q # <<>>
          /\ p[Len(p)] + 1 = q[1]

\* a catchUp loop has recorded a cursor in a ledger of three or more entries
C13_Witness == ev = "catchUpPage" /\ Len(tokens) >= 3

\* the cursor of the newest page of a server holding n activities
FrontierCursor(n) == IF n = 0 THEN 0 ELSE (n - 1) \div PageSize

\* C14: right after a catchUp loop or a positioning loop has ended because a
\* fetch returned no next cursor, bottomIndex = length(tokens) - 1 and
\* tokens[bottomIndex] is the cursor of the newest page the server held at
\* that fetch.
C14_LoopEndsAtFrontier ==
  /\ [](ev = "catchUpDone" =>
          /\ bottomIndex = Len(tokens) - 1
          /\ At(tokens, bottomIndex) = FrontierCursor(idem.srv))
  /\ [][ev' = "loadDataDone" =>
          /\ bottomIndex' = Len(tokens') - 1
          /\ At(tokens', bottomIndex') = FrontierCursor(ld.srvAt)]_vars

\* C15: once positioning has set the position, no step of the same view
\* increases topIndex or decreases bottomIndex.
C15_PositionMonotonic ==
  [][(ld.pc # "getSession" /\ ev' # "mount") =>
       (topIndex' <= topIndex /\ bottomIndex' >= bottomIndex)]_vars

\* C16: right after saveCache(L, t), for any non-empty ledger of strings L
\* and any timestamp t or none, loadCache() returns an entry with ledger L
\* and last-activity timestamp t.
C16_CacheRoundTrip ==
  ev = "saveCache" =>
    loadCache = [hit |-> TRUE, tokens |-> tokens,
                 lastActivityTime |-> LastCreateTime(activities)]

\* a ledger of one entry was saved without a timestamp
C16_Witness ==
  /\ ev = "saveCache"
  /\ Len(tokens) = 1
  /\ activities = <<>>
  /\ lsSession.tokens = tokens

\* the stored session record parses and its tokens field is a number
NumberLedger == lsSession.present /\ lsSession.parses /\ ~lsSession.isArray

BadContent ==
  /\ lsSession.present \/ lsTokens.present
  /\ lsSession.present => (~lsSession.parses \/ ~SessionValid)
  /\ lsTokens.present => (~lsTokens.parses \/ ~EveryString(lsTokens.value))

\* C18: whatever the stored records hold, the view opens (its first render
\* does not throw), and when the content is bad positioning takes the fresh
\* path with the ledger <<"">>.
C18_OpenNeverFails ==
  /\ [](ld.pc # "crashed")
  /\ [][(ld.pc = "getSession" /\ ld'.pc = "fetch" /\ BadContent) =>
          (~ld'.hit /\ tokens' = <<0>>)]_vars

\* C19: right after a catchUp loop has ended with the cursor exhausted, and
\* right after positioning has completed, loadCache would return the
\* in-memory ledger and the createTime of the newest activity of the window.
C19_CacheMirrorsLedger ==
  ev \in {"catchUpDone", "loadDataDone"} =>
    /\ loadCache.hit
    /\ loadCache.tokens = tokens
    /\ loadCache.lastActivityTime = LastCreateTime(activities)

\* the number of pages of a server holding n activities
Pages(n) == IF n = 0 THEN 1 ELSE (n + PageSize - 1) \div PageSize

\* C20: when positioning without a cache completes on a server that held the
\* same n pages throughout, it has fetched "", c1, .., c(n-1) in this order
\* and nothing else; the ledger is then <<"", c1, .., c(n-1)>>, topIndex = 0,
\* bottomIndex = n - 1, hasMoreHistory is false and the window is the n
\* pages in order.
C20_FreshPositioning ==
  [][(ev' = "loadDataDone" /\ ~ld.hit /\ ld.srv0 = srvLen) =>
       LET n == Pages(srvLen)
       IN /\ ld.fetched = ChainPrefix(n - 1)
          /\ tokens' = ChainPrefix(n - 1)
          /\ topIndex' = 0
          /\ bottomIndex' = n - 1
          /\ ~hasMoreHistory'
          /\ activities' = [i \in 1..srvLen |-> i]]_vars

\* the last of three fetches of a fresh positioning has been answered and
\* processed on a server that did not change
C20_Witness ==
  /\ ld.pc = "resolved" /\ ld.next = Undefined
  /\ ~ld.hit /\ ld.srv0 = srvLen
  /\ Len(ld.fetched) = 3


\* C30: in every reachable state the more-history flag says whether the
\* window starts after the first ledger entry: hasMoreHistory = (topIndex > 0)
C30_MoreHistoryIffTopPositive == hasMoreHistory = (topIndex > 0)

\* a loadMore has just moved the window's top to the first ledger entry
C30_Witness == ev = "loadMorePage" /\ topIndex = 0 /\ ~hasMoreHistory


\* C21: a returning visit whose cached ledger has m > 1 entries fetches first
\* with the last cached cursor and never with an earlier one; when the server
\* then gives one new cursor and next a page without cursor, the view ends
\* with ledger = cached + that cursor, topIndex = m - 1, bottomIndex = m and
\* more history reported
C21_ReturningPositioning ==
  [][(ev' = "loadDataDone" /\ ld.hit) =>
       LET cached == loadCache.tokens
           m == Len(cached)
           f == ld.fetched
       IN /\ m > 1
          /\ f[1] = cached[m]
          /\ \A k \in DOMAIN f : \A j \in 1..(m - 1) : f[k] # cached[j]
          /\ (Len(f) = 2 /\ ~Includes(cached, f[2])) =>
               /\ tokens' = Append(cached, f[2])
               /\ topIndex' = m - 1
               /\ bottomIndex' = m
               /\ hasMoreHistory']_vars

\* a returning visit has ended after one new cursor and a last page
C21_Witness ==
  /\ ev = "loadDataDone"
  /\ Len(tokens) = 3
  /\ topIndex = 1
  /\ bottomIndex = 2
  /\ loadCache.hit


\* the positioning loop of loadData is between its first fetch and its end
Positioning == ld.pc \in {"fetch", "process", "resolved"}

\* C28: when the first page of the positioning loop has been applied loading
\* is false, with isCatchingUp still true if that page named a next cursor;
\* from then on loading stays false for the rest of that loop
C28_LoadingReleasedAtFirstPage ==
  [][/\ (ld.pc = "resolved" /\ ld.isFirstBatch /\ ld' # ld) =>
          (~loading' /\ (ld.next # Undefined => isCatchingUp'))
     /\ (Positioning /\ ~ld.isFirstBatch /\ ~loading) => ~loading']_vars

\* the first page is on screen and the loop goes on to the next cursor
C28_Witness ==
  /\ ev = "loadData"
  /\ ld.pc = "fetch"
  /\ ~ld.isFirstBatch
  /\ ~loading
  /\ isCatchingUp


\* the processed form of the page a fetch with `pageToken` got from session
\* `sess` when the server held n activities
OwnPage(sess, pageToken, n) ==
  LET r == listActivities(pageToken, n)
  IN truncateActivities([i \in DOMAIN r.activities |->
                           ActivityOf(sess, r.activities[i])])

\* C27: every processActivities call resolves with the processed form of the
\* page it was given: a loop that has its result back holds its own page
C27_OwnResult ==
  /\ ld.pc = "resolved" => ld.newActs = OwnPage(name, ld.currentToken, ld.srvAt)
  /\ \A i \in DOMAIN catchUps :
       catchUps[i].phase = "resolved" =>
         catchUps[i].newActs =
           OwnPage(catchUps[i].sess, catchUps[i].currentToken, catchUps[i].srvAt)
  /\ \A i \in DOMAIN loadMores :
       loadMores[i].phase = "resolved" =>
         loadMores[i].newActs =
           OwnPage(loadMores[i].sess, loadMores[i].prevToken, loadMores[i].srvAt)


\* C22: loadMore called with topIndex = 0 starts no fetch; called with
\* topIndex = t > 0 and no load in flight it starts one fetch, with
\* tokens[t - 1], and on success puts that page, in response order, in front
\* of the window, sets topIndex to t - 1 and leaves bottomIndex and ledger alone
C22_LoadMoreStep ==
  [][/\ (ev' \in {"loadMoreStart", "loadMoreSkip"} /\ topIndex = 0) =>
          loadMores' = loadMores
     /\ (ev' = "loadMoreStart" /\ NoLoadInFlight) =>
          /\ Len(loadMores') = 1
          /\ loadMores'[1].prevToken = tokens[topIndex]
     /\ \A i \in DOMAIN loadMores :
          (/\ ev' = "loadMorePage"
           /\ loadMores[i].phase = "resolved"
           /\ loadMores[i].alone
           /\ loadMores' = RemoveAt(loadMores, i)) =>
            LET m == loadMores[i]
            IN /\ activities' = OwnPage(m.sess, m.prevToken, m.srvAt) \o activities
               /\ topIndex' = m.topIndex - 1
               /\ UNCHANGED <<bottomIndex, tokens>>]_vars


\* each cursor of a fetch log is the one the server chained to the one before
FollowsChain(f) == \A k \in 1..(Len(f) - 1) : f[k + 1] = f[k] + 1

\* C29: within one positioning or catchUp loop a fetch is issued only when
\* the loop has no response waiting to be applied, every fetch after the first
\* uses the cursor the response before it returned, and the loop ends at the
\* first response without a next cursor
C29_SequentialChain ==
  [][/\ ld'.fetched # ld.fetched /\ ld'.fetched # <<>> =>
          /\ ld.pc = "fetch" /\ ld.next = Undefined /\ ld.newActs = <<>>
          /\ FollowsChain(ld'.fetched)
     /\ (ld.pc = "resolved" /\ ld' # ld) =>
          IF ld.next = Undefined
          THEN ld'.pc = "done"
          ELSE ld'.pc = "fetch" /\ ld'.currentToken = ld.next
     /\ \A i \in DOMAIN catchUps :
          LET c == catchUps[i]
          IN /\ (i \in DOMAIN catchUps' /\ catchUps'[i].fetched # c.fetched
                 /\ Len(catchUps') = Len(catchUps)) =>
                  /\ c.phase = "fetch" /\ c.next = Undefined /\ c.newActs = <<>>
                  /\ FollowsChain(catchUps'[i].fetched)
             /\ (c.phase = "resolved" /\ ev' \in {"catchUpPage", "catchUpDone"}
                 /\ (Len(catchUps') < Len(catchUps) \/ catchUps'[i] # c)) =>
                  IF c.next = Undefined
                  THEN catchUps' = RemoveAt(catchUps, i)
                  ELSE /\ catchUps'[i].phase = "fetch"
                       /\ catchUps'[i].currentToken = c.next]_vars

\* a catchUp loop has issued its third fetch
C29_Witness ==
  /\ ev = "catchUpFetched"
  /\ \E i \in DOMAIN catchUps : Len(catchUps[i].fetched) = 3


\* C23: the polling timer is not armed while the view is loading, a catchUp
\* is in flight, a loadMore is in flight, or the session state the view holds
\* is final
C23_NoPollWhileBusy ==
  (\/ loading
   \/ catchUps # <<>>
   \/ loadMores # <<>>
   \/ session \in finalStates) => ~PollArmed


\* C25: a sendMessage or approvePlan call that the server accepted is followed
\* by a call of catchUp, one that the server rejected is not: the step that
\* ends the handler of an accepted call calls catchUp, the step that ends the
\* handler of a rejected call does not
C25_CatchUpAfterSuccess ==
  [][\A p \in pend \ pend' :
       /\ (p.kind = "approveSession" \/ (p.kind = "send" /\ srvLen' > srvLen))
            => ev' \in {"catchUpStart", "catchUpSkip"}
       /\ (p.kind = "approve" /\ \A q \in pend' : q.kind # "approveSession")
            => ev' \notin {"catchUpStart", "catchUpSkip"}
       /\ (p.kind = "send" /\ srvLen' = srvLen)
            => ev' \notin {"catchUpStart", "catchUpSkip"}]_vars


\* C24: when the view holds a final session state and the server reports a
\* state that is not final, the view, left open and idle, comes to arm its
\* polling timer again (unless the server's state turns final first)
C24_PollingResumes ==
  (session \in finalStates /\ srvState \notin finalStates)
    ~> (PollArmed \/ srvState \in finalStates)


\* C26: a catchUp loop that was started for the session shown before the
\* route changed changes nothing of the window, the ledger or the position
\* the view now holds for the new session
C26_StaleLoopIsInert ==
  [][\A i \in DOMAIN catchUps :
       (/\ catchUps[i].sess # name
        /\ catchUps[i].phase = "resolved"
        /\ ev' \in {"catchUpPage", "catchUpDone"}
        /\ (Len(catchUps') < Len(catchUps) \/ catchUps'[i] # catchUps[i])) =>
         UNCHANGED <<activities, tokens, topIndex, bottomIndex>>]_vars


\* C31: when the fetch of a loadMore call fails, window, ledger, topIndex and
\* bottomIndex stay as they are, the error is shown, loadingMore and the
\* in-flight guard are released, and tokens[topIndex - 1] is still the cursor
\* of the failed fetch, so that the next loadMore call asks for it again
C31_LoadMoreFailure ==
  [][\A i \in DOMAIN loadMores :
       (ev' = "loadMoreFail" /\ loadMores' = RemoveAt(loadMores, i)) =>
         /\ UNCHANGED <<activities, tokens, topIndex, bottomIndex>>
         /\ error' = "Failed to load more activities."
         /\ ~loadingMore' /\ ~loadingMoreRef'
         /\ ~LoadMoreGuard'
         /\ At(tokens', topIndex' - 1) = loadMores[i].prevToken]_vars

\* a loadMore call has just failed
C31_Witness ==
  /\ ev = "loadMoreFail"
  /\ error = "Failed to load more activities."
  /\ topIndex > 0


\* C32: every run of loadData comes to an end with loading and isCatchingUp
\* both false, whichever path it takes (cache hit, cache miss, failure)
C32_PositioningEnds ==
  (ld.pc = "getSession")
    ~> (ld.pc \in {"done", "failed"} /\ ~loading /\ ~isCatchingUp)

\* a returning visit has completed its positioning
C32_Witness ==
  /\ ev = "loadDataDone"
  /\ topIndex > 0
  /\ ~loading
  /\ ~isCatchingUp


\* C33: no catchUp loop runs while the positioning loop of loadData is still
\* fetching pages
C33_NoCatchUpWhilePositioning == Positioning => catchUps = <<>>


\* C35: from every idle state (not loading, no catchUp and no loadMore in
\* flight) whose window does not fill the viewport while topIndex > 0, a
\* loadMore comes to be started
C35_AutoFillProgress ==
  (/\ ld.pc \in {"done", "failed"}
   /\ ~loading
   /\ catchUps = <<>>
   /\ loadMores = <<>>
   /\ ~Fills
   /\ topIndex > 0) ~> (loadMores # <<>>)


\* C37: with no session record stored, loadCache accepts a legacy array of
\* cursor strings (its ledger is that array, it carries no lastActivityTime)
\* and takes a legacy array with an entry that is not a string as a miss
C37_LegacyAccepted ==
  [][(/\ ev' \in {"cacheHit", "cacheMiss"}
      /\ ~lsSession.present
      /\ lsTokens.present /\ lsTokens.parses
      /\ lsTokens.value # <<>>) =>
       IF EveryString(lsTokens.value)
       THEN /\ ev' = "cacheHit"
            /\ loadCache.tokens = lsTokens.value
            /\ loadCache.lastActivityTime = Undefined
       ELSE ev' = "cacheMiss"]_vars


\* C34: at most one polling interval and one progress interval are armed, all
\* of them armed by the latest run of the polling effect, and none is armed
\* once the view is disposed
C34_TimersScoped ==
  /\ Cardinality({t \in pollFx.armed : t.kind = "poll"}) <= 1
  /\ Cardinality({t \in pollFx.armed : t.kind = "progress"}) <= 1
  /\ \A t \in pollFx.armed : t.id >= pollFx.firstId
  /\ ~pollFx.mounted => pollFx.armed = {}

\* the effect has armed its intervals for the second time
C34_Witness ==
  /\ ev = "pollingEffect"
  /\ pollFx.armed # {}
  /\ pollFx.firstId > 1


\* n brought into the range 1..100
Clamped(n) == IF n < 1 THEN 1 ELSE IF n > 100 THEN 100 ELSE n

\* C38: the page size is always an integer in 1..100: 100 while nothing is
\* stored, else the size last passed to setPageSize clamped to 1..100, and the
\* stored setting is the decimal text of the same number
C38_PageSizeClamped ==
  /\ settings.pageSize \in 1..100
  /\ IF settings.stored = NothingStored
     THEN settings.pageSize = 100
     ELSE /\ settings.pageSize = Clamped(settings.size)
          /\ settings.stored = toString(Clamped(settings.size))
          /\ ParseInt(settings.stored) = settings.pageSize

\* a size above the range was set and the page loaded again
C38_Witness ==
  /\ ev = "reloadSettings"
  /\ settings.size > 100
  /\ settings.pageSize = 100


\* what a text field has to be after processing with truncation on
Shortened(text) ==
  IF text.present /\ text.length > 20 * 1024
  THEN [present |-> TRUE, length |-> 20 * 1024, marker |-> TRUE]
  ELSE text

\* C36: the processed page has the activities and artifacts of the page
\* posted, in the same order; with truncation off it is the same page; with
\* truncation on every patch and every output is the original cut to its
\* first 20*1024 characters plus the marker, or the original if it is not
\* longer than that, also when one artifact has both fields too long
C36_Truncation ==
  page.posted =>
    /\ Len(page.processed) = Len(page.activities)
    /\ ~page.truncateDiffs => page.processed = page.activities
    /\ \A i \in DOMAIN page.activities :
         LET a == page.activities[i]
             b == page.processed[i]
         IN /\ b.name = a.name
            /\ Len(b.artifacts) = Len(a.artifacts)
            /\ page.truncateDiffs =>
                 \A j \in DOMAIN a.artifacts :
                   /\ b.artifacts[j].unidiffPatch =
                        Shortened(a.artifacts[j].unidiffPatch)
                   /\ b.artifacts[j].output = Shortened(a.artifacts[j].output)

====
